---- MODULE Spec2Model ----
(***************************************************************************)
(* Investa Analyzr (src/app.py): the users store with its daily usage      *)
(* counter, the login session, and main(), the report pipeline that        *)
(* fetches company data, assembles report_input, calls the language model  *)
(* and renders the answer to PDF flowables.                                *)
(***************************************************************************)
EXTENDS Naturals, Sequences, FiniteSets, TLC

VARIABLES
    users,            \* the users table: username -> row (sqlite, users.db)
    today,            \* the calendar day datetime.now().date() falls on
    logged_in,        \* st.session_state['logged_in']
    username,         \* st.session_state['username'] (NoUser when absent)
    screen,           \* what the last script run left on screen
    note,             \* the message of the last Login / Sign Up press
    pc,               \* position of the running script inside main()
    btn,              \* the button the running script was started by
    usage_count,      \* main's local usage_count (line 202)
    report_input,     \* main's local report_input, a sequence of appended pieces
    final_report,     \* main's local final_report (Unbound until assigned)
    flowables,        \* the flowables generate_pdf handed to doc.build
    calls,            \* the calls main made in this run, in order
    errors,           \* the st.error messages of this run, in order
    provider,         \* what the external providers answer in this execution
    pipeline_starts   \* per identity: runs of the pipeline block started today

vars == <<users, today, logged_in, username, screen, note, pc, btn, usage_count,
          report_input, final_report, flowables, calls, errors, provider,
          pipeline_starts>>

(***************************************************************************)
(* Bounds of the model.                                                    *)
(***************************************************************************)
MaxDay == 1          \* calendar days 0..MaxDay
MaxStarts == 6       \* pipeline starts followed per identity and day
MaxSeedCount == 6    \* largest usage_count of a row found in users.db at start
MaxRows == 3         \* rows of a recommendation table
MaxLen == 6          \* characters of a text handed to generate_pdf

Usernames == {"u1", "u2"}
Passwords == {"p1", "p2"}
Salts == {"s1", "s2"}
NoUser == "none"
Days == 0..MaxDay

(***************************************************************************)
(* The daily limit tested at line 220.                                     *)
(***************************************************************************)
DailyLimit == 5

(***************************************************************************)
(* Python values the store handles.  datetime.now().date() is a date       *)
(* object; the sqlite3 module's default adapter writes a date as its ISO   *)
(* text, and the connection of line 36 is opened without detect_types, so  *)
(* a DATE column is read back as that text (a str), never as a date.       *)
(***************************************************************************)
DateObj(d) == [type |-> "date", ord |-> d]
IsoText(d) == [type |-> "str", ord |-> d]

\* datetime.now().date()
CurrentDate == DateObj(today)

\* sqlite3's default date adapter, applied to a bound parameter on write
AdaptDate(v) == IF v.type = "date" THEN IsoText(v.ord) ELSE v

\* what c.fetchone() returns for a stored DATE column
ReadDateColumn(v) == v

\* Python's != : values of different types are unequal
PyNotEqual(a, b) == a # b

(***************************************************************************)
(* bcrypt: a hash carries the salt it was made with; checkpw recomputes    *)
(* the hash of the provided password under the stored salt.                *)
(***************************************************************************)
hash_password(password, salt) == [pw |-> password, salt |-> salt]

verify_password(stored_password, provided_password) ==
    stored_password = hash_password(provided_password, stored_password.salt)

Row(hashed, count, last_reset) ==
    [password |-> hashed, usage_count |-> count, last_reset |-> last_reset]

\* INSERT OR REPLACE: a second row with the same username takes the first's place
InsertUser_Replace(table, name, row) ==
    IF name \in DOMAIN table
    THEN [ok |-> FALSE, table |-> [table EXCEPT ![name] = row]]
    ELSE [ok |-> TRUE, table |-> table @@ (name :> row)]

\* INSERT INTO users ... : username is the PRIMARY KEY, so a second row with
\* the same username raises sqlite3.IntegrityError and nothing is written.
InsertUser(table, name, row) ==
    IF name \in DOMAIN table
    THEN [ok |-> FALSE, table |-> table]
    ELSE [ok |-> TRUE, table |-> table @@ (name :> row)]

\* create_user: the table after the call and the value returned
create_user(table, name, password, salt) ==
    InsertUser(table, name, Row(hash_password(password, salt), 0, AdaptDate(CurrentDate)))

authenticate_user(table, name, password) ==
    /\ name \in DOMAIN table
    /\ verify_password(table[name].password, password)

\* the test of line 69
IsNewDay(last_reset) == PyNotEqual(ReadDateColumn(last_reset), CurrentDate)

\* reset_usage_if_new_day: the committed table after the call
reset_usage_if_new_day(table, name) ==
    IF IsNewDay(table[name].last_reset)
    THEN [table EXCEPT ![name].usage_count = 0,
                       ![name].last_reset = AdaptDate(CurrentDate)]
    ELSE table

\* the UPDATE of line 76
AddOneUse(table, name) ==
    [table EXCEPT ![name].usage_count = @ + 1]

get_usage_count(table, name) == table[name].usage_count

\* the limit tested one too high: `usage_count > 5`
LimitReached_Above(count) == count > DailyLimit

\* the test of line 220
LimitReached(count) == count >= DailyLimit

(***************************************************************************)
(* Python values of the provider payloads: None, strings and numbers, each *)
(* with its str() text.  Truthy is Python's truth test (line 290).         *)
(***************************************************************************)
PyNone == [t |-> "none", s |-> "None"]
PyStr(x) == [t |-> "str", s |-> x]
PyNum(x) == [t |-> "num", s |-> x]

Truthy(v) ==
    CASE v.t = "none" -> FALSE
      [] v.t = "str" -> v.s # ""
      [] v.t = "num" -> v.s # "0"

\* str(v), as an f-string interpolates it
Format(v) == v.s

\* dict.get(key, default): the default only when the key is absent
Get(d, key, default) == IF key \in DOMAIN d THEN d[key] ELSE default

(***************************************************************************)
(* The outcome of one call of a fetcher or of the model endpoint: it       *)
(* raises, returns None, or returns a payload.                             *)
(***************************************************************************)
Raise == [kind |-> "raise", val |-> <<>>]
Nothing == [kind |-> "none", val |-> <<>>]
Data(v) == [kind |-> "data", val |-> v]

Unbound == [kind |-> "unbound", val |-> <<>>]

(***************************************************************************)
(* Company info (lines 255-294).                                           *)
(***************************************************************************)
\* company_info_cleaned, in the dict's insertion order
company_info_cleaned(full) ==
    << <<"Name", Get(full, "shortName", PyNone)>>,
       <<"Symbol", Get(full, "symbol", PyNone)>>,
       <<"Current Stock Price",
         PyStr(Format(Get(full, "regularMarketPrice", Get(full, "currentPrice", PyNone)))
               \o " " \o Format(Get(full, "currency", PyStr("USD"))))>>,
       <<"Market Cap",
         PyStr(Format(Get(full, "marketCap", Get(full, "enterpriseValue", PyNone)))
               \o " " \o Format(Get(full, "currency", PyStr("USD"))))>>,
       <<"Sector", Get(full, "sector", PyNone)>>,
       <<"Industry", Get(full, "industry", PyNone)>>,
       <<"Address", Get(full, "address1", PyNone)>>,
       <<"City", Get(full, "city", PyNone)>>,
       <<"State", Get(full, "state", PyNone)>>,
       <<"Zip", Get(full, "zip", PyNone)>>,
       <<"Country", Get(full, "country", PyNone)>>,
       <<"EPS", Get(full, "trailingEps", PyNone)>>,
       <<"P/E Ratio", Get(full, "trailingPE", PyNone)>>,
       <<"52 Week Low", Get(full, "fiftyTwoWeekLow", PyNone)>>,
       <<"52 Week High", Get(full, "fiftyTwoWeekHigh", PyNone)>>,
       <<"50 Day Average", Get(full, "fiftyDayAverage", PyNone)>>,
       <<"200 Day Average", Get(full, "twoHundredDayAverage", PyNone)>>,
       <<"Website", Get(full, "website", PyNone)>>,
       <<"Summary", Get(full, "longBusinessSummary", PyNone)>>,
       <<"Analyst Recommendation", Get(full, "recommendationKey", PyNone)>>,
       <<"Number Of Analyst Opinions", Get(full, "numberOfAnalystOpinions", PyNone)>>,
       <<"Employees", Get(full, "fullTimeEmployees", PyNone)>>,
       <<"Total Cash", Get(full, "totalCash", PyNone)>>,
       <<"Free Cash flow", Get(full, "freeCashflow", PyNone)>>,
       <<"Operating Cash flow", Get(full, "operatingCashflow", PyNone)>>,
       <<"EBITDA", Get(full, "ebitda", PyNone)>>,
       <<"Revenue Growth", Get(full, "revenueGrowth", PyNone)>>,
       <<"Gross Margins", Get(full, "grossMargins", PyNone)>>,
       <<"Ebitda Margins", Get(full, "ebitdaMargins", PyNone)>> >>

\* the loop of lines 289-291 over items i..end
RECURSIVE CompanyInfoLines(_, _)
CompanyInfoLines(items, i) ==
    IF i > Len(items) THEN ""
    ELSE (IF Truthy(items[i][2])
          THEN "  - " \o items[i][1] \o ": " \o Format(items[i][2]) \o "\n\n"
          ELSE "")
         \o CompanyInfoLines(items, i + 1)

company_info_md(full) ==
    "## Company Info\n\n" \o CompanyInfoLines(company_info_cleaned(full), 1)

CompanyInfoIntro == "This section contains information about the company.\n\n"
Rule == "---\n"

\* `if company_info_full is not None:` : the empty dict passes
InfoTruthy_NotNone(result) == result.kind = "data"

\* `if company_info_full:` : None and the empty dict are falsy
InfoTruthy(result) == result.kind = "data" /\ DOMAIN result.val # {}

\* the pieces lines 292-294 append to report_input
CompanyInfoSection(result) ==
    IF InfoTruthy(result)
    THEN <<CompanyInfoIntro, company_info_md(result.val), Rule>>
    ELSE <<>>

(***************************************************************************)
(* Company news (lines 302-318).  A news item is a dict of strings;        *)
(* news_item['title'] raises KeyError when the item has no title.          *)
(***************************************************************************)
NewsItemMd(news_item) ==
    "#### " \o news_item["title"] \o "\n\n"
    \o (IF "date" \in DOMAIN news_item
        THEN "  - Date: " \o news_item["date"] \o "\n\n" ELSE "")
    \o (IF "url" \in DOMAIN news_item
        THEN "  - Link: " \o news_item["url"] \o "\n\n" ELSE "")
    \o (IF "source" \in DOMAIN news_item
        THEN "  - Source: " \o news_item["source"] \o "\n\n" ELSE "")
    \o (IF "body" \in DOMAIN news_item THEN news_item["body"] ELSE "")
    \o "\n\n"

RECURSIVE NewsItemsMd(_, _)
NewsItemsMd(company_news, i) ==
    IF i > Len(company_news) THEN ""
    ELSE NewsItemMd(company_news[i]) \o NewsItemsMd(company_news, i + 1)

NewsRaises(company_news) ==
    \E i \in 1..Len(company_news) : "title" \notin DOMAIN company_news[i]

company_news_md(company_news) == "## Company News\n\n\n" \o NewsItemsMd(company_news, 1)

CompanyNewsIntro ==
    "This section contains the most recent news articles about the company.\n\n"

\* the block of lines 302-318: does it raise, and the pieces it appends
CompanyNewsBlock(result) ==
    IF result.kind # "data" THEN [raised |-> TRUE, pieces |-> <<>>]
    ELSE IF Len(result.val) = 0 THEN [raised |-> FALSE, pieces |-> <<>>]
    ELSE IF NewsRaises(result.val) THEN [raised |-> TRUE, pieces |-> <<>>]
    ELSE [raised |-> FALSE,
          pieces |-> <<CompanyNewsIntro, company_news_md(result.val), Rule>>]

(***************************************************************************)
(* Analyst recommendations (lines 326-332).  A DataFrame is its ordered    *)
(* columns and its rows, each row a function from column to text.          *)
(***************************************************************************)
DataFrame(columns, rows) == [columns |-> columns, rows |-> rows]

\* DataFrame.empty
IsEmpty(df) == Len(df.rows) = 0 \/ Len(df.columns) = 0

ColumnSet(df) == {df.columns[i] : i \in 1..Len(df.columns)}

RECURSIVE RowCells(_, _, _)
RowCells(row, columns, i) ==
    IF i > Len(columns) THEN ""
    ELSE " " \o row[columns[i]] \o " |" \o RowCells(row, columns, i + 1)

RECURSIVE HeaderCells(_, _)
HeaderCells(columns, i) ==
    IF i > Len(columns) THEN ""
    ELSE " " \o columns[i] \o " |" \o HeaderCells(columns, i + 1)

RECURSIVE TableRows(_, _)
TableRows(df, i) ==
    IF i > Len(df.rows) THEN ""
    ELSE "\n|" \o RowCells(df.rows[i], df.columns, 1) \o TableRows(df, i + 1)

\* DataFrame.to_markdown(): a header line, then one line per row
to_markdown(df) == "|" \o HeaderCells(df.columns, 1) \o TableRows(df, 1)

\* `x is not None and not x.empty`; None.empty is never evaluated
HasRows(result) == result.kind = "data" /\ ~IsEmpty(result.val)

RecommendationsBlock(result) ==
    IF result.kind = "raise" THEN [raised |-> TRUE, pieces |-> <<>>]
    ELSE IF ~HasRows(result) THEN [raised |-> FALSE, pieces |-> <<>>]
    ELSE [raised |-> FALSE,
          pieces |-> <<"## Analyst Recommendations\n\n",
                       "This table outlines the most recent analyst recommendations for the stock.\n\n",
                       to_markdown(result.val) \o "\n",
                       Rule>>]

(***************************************************************************)
(* Upgrades/downgrades (lines 340-352).                                    *)
(***************************************************************************)
UpgradeActions == {"upgraded", "downgraded"}

\* df[df['Action'].isin([...])] : the matching rows, in the table's order
IsinFilter(rows) == SelectSeq(rows, LAMBDA row : row["Action"] \in UpgradeActions)

\* head(3)
Head2_Three(rows) == SubSeq(rows, 1, IF Len(rows) < 3 THEN Len(rows) ELSE 3)

\* DataFrame.head(n)
Head2(rows) == SubSeq(rows, 1, IF Len(rows) < 2 THEN Len(rows) ELSE 2)

\* line 342
SelectUpgrades(rows) == Head2(IsinFilter(rows))

\* line 346
UpgradeLine(row) ==
    "- " \o row["Firm"] \o " " \o row["Action"] \o " the stock to " \o row["To Grade"] \o ".\n"

RECURSIVE upgrades_downgrades_md(_, _)
upgrades_downgrades_md(rows, i) ==
    IF i > Len(rows) THEN ""
    ELSE UpgradeLine(rows[i]) \o upgrades_downgrades_md(rows, i + 1)

UpgradesHeader == "## Upgrades/Downgrades\n\n"
UpgradesIntro ==
    "This section outlines the most recent upgrades and downgrades for the stock.\n\n"

UpgradesBlock(result) ==
    IF result.kind = "raise" THEN [raised |-> TRUE, pieces |-> <<>>]
    ELSE IF ~HasRows(result) THEN [raised |-> FALSE, pieces |-> <<>>]
    ELSE IF "Action" \notin ColumnSet(result.val) THEN [raised |-> TRUE, pieces |-> <<>>]
    ELSE LET selected == SelectUpgrades(result.val.rows)
         IN  IF Len(selected) = 0 THEN [raised |-> FALSE, pieces |-> <<>>]
             ELSE IF ~({"Firm", "To Grade"} \subseteq ColumnSet(result.val))
             THEN [raised |-> TRUE, pieces |-> <<>>]
             ELSE [raised |-> FALSE,
                   pieces |-> <<UpgradesHeader, UpgradesIntro,
                                upgrades_downgrades_md(selected, 1) \o "\n",
                                Rule>>]

(***************************************************************************)
(* Historical data (lines 361-370): None has no .empty (AttributeError);   *)
(* the frame touches no report_input.                                      *)
(***************************************************************************)
HistoryBlock(result) ==
    [raised |-> result.kind # "data", pieces |-> <<>>]

(***************************************************************************)
(* generate_report (lines 113-171): the prompt embeds report_input as it   *)
(* is, with no test on it, and the function returns what the endpoint      *)
(* answers; it raises only when the endpoint call raises.                  *)
(***************************************************************************)
generate_report(input, endpoint) ==
    IF endpoint.kind = "data"
    THEN [raised |-> FALSE, value |-> Data(endpoint.val)]
    ELSE [raised |-> TRUE, value |-> Unbound]

(***************************************************************************)
(* generate_pdf (lines 173-197).  A text is a sequence of characters.      *)
(***************************************************************************)
NL == "\n"
Glyph == "bullet"

StartsWith(line, prefix) ==
    /\ Len(line) >= Len(prefix)
    /\ SubSeq(line, 1, Len(prefix)) = prefix

\* line[n:]
Drop(line, n) == SubSeq(line, n + 1, Len(line))

\* str.split('\n'): the pieces between newlines, at least one
RECURSIVE SplitFrom(_, _, _)
SplitFrom(content, i, current) ==
    IF i > Len(content) THEN <<current>>
    ELSE IF content[i] = NL THEN <<current>> \o SplitFrom(content, i + 1, <<>>)
    ELSE SplitFrom(content, i + 1, Append(current, content[i]))

SplitLines(content) == SplitFrom(content, 1, <<>>)

Paragraph(text, style) == [kind |-> "Paragraph", text |-> text, style |-> style, height |-> 0]
Spacer(height) == [kind |-> "Spacer", text |-> <<>>, style |-> "", height |-> height]

TitleMark == <<"#", " ">>
Heading3Mark == <<"#", "#", "#", " ">>
BulletMark == <<"-", " ">>

\* a heading cut like a title: line[2:] where line[4:] is meant
LineFlowables_HeadingCutShort(line) ==
    (IF StartsWith(line, TitleMark)
     THEN <<Paragraph(Drop(line, 2), "Title"), Spacer(12)>>
     ELSE IF StartsWith(line, Heading3Mark)
     THEN <<Paragraph(Drop(line, 2), "Heading3"), Spacer(6)>>
     ELSE IF StartsWith(line, BulletMark)
     THEN <<Paragraph(<<Glyph, " ">> \o Drop(line, 2), "BodyText")>>
     ELSE <<Paragraph(line, "Justify")>>)
    \o <<Spacer(6)>>

\* the body of the for loop, lines 182-193
LineFlowables(line) ==
    (IF StartsWith(line, TitleMark)
     THEN <<Paragraph(Drop(line, 2), "Title"), Spacer(12)>>
     ELSE IF StartsWith(line, Heading3Mark)
     THEN <<Paragraph(Drop(line, 4), "Heading3"), Spacer(6)>>
     ELSE IF StartsWith(line, BulletMark)
     THEN <<Paragraph(<<Glyph, " ">> \o Drop(line, 2), "BodyText")>>
     ELSE <<Paragraph(line, "Justify")>>)
    \o <<Spacer(6)>>

RECURSIVE FlowablesFrom(_, _)
FlowablesFrom(lines, i) ==
    IF i > Len(lines) THEN <<>>
    ELSE LineFlowables(lines[i]) \o FlowablesFrom(lines, i + 1)

generate_pdf(content) == FlowablesFrom(SplitLines(content), 1)

(***************************************************************************)
(* Sign Up, Login and Logout (lines 396-431).  The forms are on screen     *)
(* only while nobody is logged in; a script run is never interleaved with  *)
(* another press (pc = "idle").                                            *)
(***************************************************************************)
NoStarts == [u \in Usernames |-> 0]

RunLocalsCleared ==
    /\ report_input' = <<>>
    /\ final_report' = Unbound
    /\ flowables' = <<>>
    /\ calls' = <<>>
    /\ errors' = <<>>

SignUp(new_username, new_password, salt) ==
    /\ pc = "idle" /\ ~logged_in
    /\ LET r == create_user(users, new_username, new_password, salt)
       IN  /\ users' = r.table
           /\ note' = IF r.ok THEN "Account created successfully! Please log in."
                              ELSE "Username already exists"
    /\ UNCHANGED <<today, logged_in, username, screen, pc, btn, usage_count,
                   report_input, final_report, flowables, calls, errors,
                   provider, pipeline_starts>>

\* a successful login ends in st.rerun(): the script runs again and enters main
Login(name, password) ==
    /\ pc = "idle" /\ ~logged_in
    /\ IF authenticate_user(users, name, password)
       THEN /\ logged_in' = TRUE
            /\ username' = name
            /\ note' = ""
            /\ pc' = "main"
            /\ btn' = "none"
       ELSE /\ note' = "Invalid username or password"
            /\ UNCHANGED <<logged_in, username, pc, btn>>
    /\ UNCHANGED <<users, today, screen, usage_count, report_input, final_report,
                   flowables, calls, errors, provider, pipeline_starts>>

Logout ==
    /\ pc = "idle" /\ logged_in
    /\ logged_in' = FALSE
    /\ username' = NoUser
    /\ screen' = "login"
    /\ note' = ""
    /\ UNCHANGED <<users, today, pc, btn, usage_count, report_input, final_report,
                   flowables, calls, errors, provider, pipeline_starts>>

(***************************************************************************)
(* A press on the form main() drew: "generate", "download", or "none" for  *)
(* any other widget (ticker, sidebar), which reruns the script too.  The   *)
(* form is on screen only when the last run got past line 222.             *)
(***************************************************************************)
Buttons == {"generate", "download"}

Press(b) ==
    /\ pc = "idle" /\ logged_in /\ screen = "form"
    /\ b \in Buttons => pipeline_starts[username] < MaxStarts
    /\ pc' = "main"
    /\ btn' = b
    /\ UNCHANGED <<users, today, logged_in, username, screen, note, usage_count,
                   report_input, final_report, flowables, calls, errors,
                   provider, pipeline_starts>>

(***************************************************************************)
(* main(), lines 201-245: read the count, refuse at the limit, draw the    *)
(* form, and enter the pipeline block when a button started this run.      *)
(***************************************************************************)
MainEntry ==
    /\ pc = "main"
    /\ LET count == get_usage_count(users, username)
       IN  /\ usage_count' = count
           /\ IF LimitReached(count)
              THEN /\ screen' = "limit"
                   /\ pc' = "idle"
                   /\ UNCHANGED pipeline_starts
              ELSE /\ screen' = "form"
                   /\ IF btn \in Buttons
                      THEN /\ pc' = "reset"
                           /\ pipeline_starts' =
                                [pipeline_starts EXCEPT ![username] = @ + 1]
                      ELSE /\ pc' = "idle"
                           /\ UNCHANGED pipeline_starts
    /\ UNCHANGED <<users, today, logged_in, username, note, btn, report_input,
                   final_report, flowables, calls, errors, provider>>

\* increment_usage, first half: reset_usage_if_new_day and its commit (line 72)
ResetUsage ==
    /\ pc = "reset"
    /\ users' = reset_usage_if_new_day(users, username)
    /\ calls' = Append(calls, "increment_usage")
    /\ pc' = "update"
    /\ UNCHANGED <<today, logged_in, username, screen, note, btn, usage_count,
                   report_input, final_report, flowables, errors, provider,
                   pipeline_starts>>

\* increment_usage, second half: the UPDATE and its commit (lines 76-77);
\* then report_input = "" (line 250)
IncrementUsage ==
    /\ pc = "update"
    /\ users' = AddOneUse(users, username)
    /\ report_input' = <<>>
    /\ pc' = "info"
    /\ UNCHANGED <<today, logged_in, username, screen, note, btn, usage_count,
                   final_report, flowables, calls, errors, provider,
                   pipeline_starts>>

(***************************************************************************)
(* The fetch blocks.  Each is a try/except of its own: a raise inside adds *)
(* an st.error and the script goes on with the next block.                 *)
(***************************************************************************)
\* one try around all the blocks: the first raise skips the blocks behind it
FetchBlock_Abort(here, fn, block, label, next) ==
    /\ pc = here
    /\ calls' = Append(calls, fn)
    /\ report_input' = report_input \o block.pieces
    /\ errors' = IF block.raised THEN Append(errors, label) ELSE errors
    /\ pc' = IF block.raised THEN "done" ELSE next
    /\ UNCHANGED <<users, today, logged_in, username, screen, note, btn,
                   usage_count, final_report, flowables, provider,
                   pipeline_starts>>

FetchBlock(here, fn, block, label, next) ==
    /\ pc = here
    /\ calls' = Append(calls, fn)
    /\ report_input' = report_input \o block.pieces
    /\ errors' = IF block.raised THEN Append(errors, label) ELSE errors
    /\ pc' = next
    /\ UNCHANGED <<users, today, logged_in, username, screen, note, btn,
                   usage_count, final_report, flowables, provider,
                   pipeline_starts>>

CompanyInfoBlock(result) ==
    [raised |-> result.kind = "raise", pieces |-> CompanyInfoSection(result)]

GetCompanyInfo ==
    FetchBlock("info", "get_stock_info", CompanyInfoBlock(provider.info),
               "company info", "news")

GetCompanyNews ==
    FetchBlock("news", "get_company_news", CompanyNewsBlock(provider.news),
               "company news", "recommendations")

GetAnalystRecommendations ==
    FetchBlock("recommendations", "get_analyst_recommendations",
               RecommendationsBlock(provider.recs), "analyst recommendations",
               "upgrades")

GetUpgradesDowngrades ==
    FetchBlock("upgrades", "get_analyst_recommendations",
               UpgradesBlock(provider.upg), "upgrades/downgrades", "history")

GetHistoricalData ==
    FetchBlock("history", "get_stock_history", HistoryBlock(provider.hist),
               "historical data", "generate")

\* lines 375-380, then the test of line 382
GenerateFinalReport ==
    /\ pc = "generate"
    /\ LET r == generate_report(report_input, provider.llm)
       IN  /\ final_report' = r.value
           /\ errors' = IF r.raised THEN Append(errors, "report") ELSE errors
    /\ calls' = Append(calls, "generate_report")
    /\ pc' = IF btn = "download" THEN "pdf" ELSE "done"
    /\ UNCHANGED <<users, today, logged_in, username, screen, note, btn,
                   usage_count, report_input, flowables, provider,
                   pipeline_starts>>

\* lines 383-394: final_report is unbound when generate_report raised, and the
\* NameError is caught like any other error
DownloadPdf ==
    /\ pc = "pdf"
    /\ calls' = Append(calls, "generate_pdf")
    /\ IF final_report.kind = "data"
       THEN /\ flowables' = generate_pdf(final_report.val)
            /\ UNCHANGED errors
       ELSE /\ errors' = Append(errors, "PDF")
            /\ UNCHANGED flowables
    /\ pc' = "done"
    /\ UNCHANGED <<users, today, logged_in, username, screen, note, btn,
                   usage_count, report_input, final_report, provider,
                   pipeline_starts>>

\* main returns: its locals are gone, the script run is over
MainReturn ==
    /\ pc = "done"
    /\ pc' = "idle"
    /\ RunLocalsCleared
    /\ UNCHANGED <<users, today, logged_in, username, screen, note, btn,
                   usage_count, provider, pipeline_starts>>

\* midnight: datetime.now().date() moves on
Tick ==
    /\ today < MaxDay
    /\ today' = today + 1
    /\ pipeline_starts' = NoStarts
    /\ UNCHANGED <<users, logged_in, username, screen, note, pc, btn, usage_count,
                   report_input, final_report, flowables, calls, errors, provider>>

(***************************************************************************)
(* What the providers can answer.                                          *)
(***************************************************************************)
\* dicts over some of the keys main reads, plus one key it never reads
InfoKeys == {"shortName", "regularMarketPrice", "currentPrice", "currency"}
InfoValues == {PyNone, PyStr("v")}
InfoDicts ==
    UNION {[keys -> InfoValues] : keys \in SUBSET InfoKeys}
    \cup {("trailingPegRatio" :> PyNone), ("shortName" :> PyStr("")),
          ("regularMarketPrice" :> PyNum("0"))}
InfoAnswers == {Raise, Nothing} \cup {Data(d) : d \in InfoDicts}
InfoSample ==
    {Raise, Nothing, Data(<<>>), Data("trailingPegRatio" :> PyNone),
     Data(("shortName" :> PyStr("Acme")) @@ ("currentPrice" :> PyNum("10")))}

NewsKeys == {"title", "date", "body"}
NewsItems == UNION {[keys -> {"", "t"}] : keys \in SUBSET NewsKeys}
NewsAnswers ==
    {Raise, Data(<<>>)} \cup {Data(<<item>>) : item \in NewsItems}
    \cup {Data(<<("title" :> "a"), item>>) : item \in NewsItems}
NewsSample ==
    {Raise, Data(<<>>), Data(<<("title" :> "a") @@ ("body" :> "b")>>),
     Data(<<("title" :> "")>>), Data(<<("body" :> "b")>>)}

GradeColumns == <<"Firm", "To Grade", "Action">>
Actions == {"upgraded", "downgraded", "main"}
Firm(i) == CASE i = 1 -> "F1" [] i = 2 -> "F2" [] i = 3 -> "F3"
             [] i = 4 -> "F4" [] OTHER -> "F5"
GradeRows(n) ==
    {[i \in 1..n |-> ("Firm" :> Firm(i)) @@ ("To Grade" :> "Buy") @@ ("Action" :> a[i])]
       : a \in [1..n -> Actions]}
GradeTables == {DataFrame(GradeColumns, rows) : rows \in UNION {GradeRows(n) : n \in 0..MaxRows}}
\* the table of newer provider versions: counts per period, no Action column
PeriodTable == DataFrame(<<"period", "buy">>, <<("period" :> "0m") @@ ("buy" :> "7")>>)
\* a table of grades that lacks the Firm column
FirmlessTable ==
    DataFrame(<<"To Grade", "Action">>, <<("To Grade" :> "Buy") @@ ("Action" :> "upgraded")>>)
TableAnswers ==
    {Raise, Nothing, Data(PeriodTable), Data(FirmlessTable)}
    \cup {Data(t) : t \in GradeTables}
TableSample ==
    {Raise, Nothing, Data(DataFrame(GradeColumns, <<>>)), Data(PeriodTable),
     Data(DataFrame(GradeColumns,
                    <<("Firm" :> "F1") @@ ("To Grade" :> "Buy") @@ ("Action" :> "main"),
                      ("Firm" :> "F2") @@ ("To Grade" :> "Hold") @@ ("Action" :> "downgraded")>>))}

HistorySample ==
    {Raise, Nothing, Data(DataFrame(<<"Open">>, <<>>)),
     Data(DataFrame(<<"Open">>, <<("Open" :> "1")>>))}

ReportSample == <<"#", " ", "T", NL, "-", " ", "a", NL, "b">>
EndpointSample == {Raise, Data(ReportSample)}

Provider(info, news, recs, upg, hist, llm) ==
    [info |-> info, news |-> news, recs |-> recs, upg |-> upg, hist |-> hist, llm |-> llm]

\* every provider failing, and every provider answering
AllFail == Provider(Raise, Raise, Raise, Raise, Raise, Raise)
AllAnswer ==
    Provider(Data(("shortName" :> PyStr("Acme")) @@ ("currentPrice" :> PyNum("10"))),
             Data(<<("title" :> "a") @@ ("body" :> "b")>>),
             Data(PeriodTable), Data(PeriodTable),
             Data(DataFrame(<<"Open">>, <<("Open" :> "1")>>)),
             Data(ReportSample))
\* the answers for a ticker symbol the market-data provider does not know
UnknownTicker ==
    Provider(Data("trailingPegRatio" :> PyNone), Data(<<>>), Nothing, Nothing,
             Data(DataFrame(<<"Open">>, <<>>)), Data(ReportSample))
ProvidersFew == {AllFail, AllAnswer, UnknownTicker}

\* every combination of the sample answers, and every answer of one provider
\* with the others answering as in AllAnswer
ProvidersMany ==
    {Provider(i, n, r, u, h, l) :
        i \in InfoSample, n \in NewsSample, r \in TableSample, u \in TableSample,
        h \in {Raise, AllAnswer.hist}, l \in EndpointSample}
    \cup {[AllAnswer EXCEPT !.info = i] : i \in InfoAnswers}
    \cup {[AllAnswer EXCEPT !.news = n] : n \in NewsAnswers}
    \cup {[AllAnswer EXCEPT !.recs = r] : r \in TableAnswers}
    \cup {[AllAnswer EXCEPT !.upg = u] : u \in TableAnswers}
    \cup {[AllFail EXCEPT !.hist = h] : h \in HistorySample}

(***************************************************************************)
(* The state when the script starts: nobody logged in, the login form on   *)
(* screen.  users.db is a file that outlives the process (line 36 opens    *)
(* it, line 38 creates the table only if it is missing): Init starts from  *)
(* the empty table, InitStored from a table an earlier process left.       *)
(***************************************************************************)
SessionStart ==
    /\ today = 0
    /\ logged_in = FALSE
    /\ username = NoUser
    /\ screen = "login"
    /\ note = ""
    /\ pc = "idle"
    /\ btn = "none"
    /\ usage_count = 0
    /\ report_input = <<>>
    /\ final_report = Unbound
    /\ flowables = <<>>
    /\ calls = <<>>
    /\ errors = <<>>
    /\ pipeline_starts = NoStarts

Init ==
    /\ SessionStart
    /\ users = <<>>
    /\ provider \in ProvidersFew

Interaction ==
    \/ \E u \in Usernames, p \in Passwords, s \in Salts : SignUp(u, p, s)
    \/ \E u \in Usernames, p \in Passwords : Login(u, p)
    \/ Logout
    \/ \E b \in Buttons \cup {"none"} : Press(b)

Pipeline ==
    \/ MainEntry
    \/ ResetUsage
    \/ IncrementUsage
    \/ GetCompanyInfo
    \/ GetCompanyNews
    \/ GetAnalystRecommendations
    \/ GetUpgradesDowngrades
    \/ GetHistoricalData
    \/ GenerateFinalReport
    \/ DownloadPdf
    \/ MainReturn

Next == Interaction \/ Pipeline \/ Tick

Spec == Init /\ [][Next]_vars

\* a table an earlier process left in users.db: one registered identity,
\* with any count up to MaxSeedCount, last reset on day 0
StoredTables ==
    {("u1" :> Row(hash_password("p1", "s1"), n, IsoText(0))) : n \in 0..MaxSeedCount}

InitStored ==
    /\ SessionStart
    /\ users \in StoredTables
    /\ provider \in ProvidersFew

SpecStored == InitStored /\ [][Next]_vars

(***************************************************************************)
(* The usage gate.                                                         *)
(***************************************************************************)
\* the script run passes lines 201-245 in this step
EntersMain == pc = "main" /\ pc' # "main"

\* the stored last_reset names the current day / an earlier day
ResetToday(row) == row.last_reset.ord = today
ResetEarlier(row) == row.last_reset.ord < today

\* C1: an identity starts the pipeline block at most 5 times in a calendar day.
C1_AtMostFiveStartsADay ==
    \A u \in Usernames : pipeline_starts[u] <= DailyLimit

\* C2: at the entry of main, a stored count of 5 or more with last_reset today
\* refuses the run (warning, return, no call made, the row untouched); a
\* count of 4 or less with last_reset today lets a button's run proceed.
C2_GateAtEntry ==
    [][EntersMain =>
        LET row == users[username]
        IN  /\ (row.usage_count >= 5 /\ ResetToday(row)) =>
                  /\ screen' = "limit"
                  /\ pc' = "idle"
                  /\ calls' = <<>>
                  /\ users' = users
            /\ (row.usage_count <= 4 /\ ResetToday(row)) =>
                  /\ screen' = "form"
                  /\ btn \in Buttons => pc' = "reset"
      ]_vars

\* C2, witness: a run was refused at the limit on the day of last_reset
C2_Refused ==
    /\ logged_in /\ pc = "idle" /\ screen = "limit"
    /\ users[username].usage_count >= 5
    /\ ResetToday(users[username])
    /\ calls = <<>>

\* C3: when the count >= 5 check is applied for an identity whose last_reset
\* is an earlier day, the count has been reset to 0 and last_reset updated,
\* and the run is allowed.
C3_ResetPrecedesGate ==
    [][(EntersMain /\ ResetEarlier(users[username])) =>
        /\ usage_count' = 0
        /\ users'[username].usage_count = 0
        /\ users'[username].last_reset.ord = today
        /\ screen' = "form"
      ]_vars

\* C4: within one calendar day the stored usage_count of a row never decreases.
C4_CountMonotoneInDay ==
    [][today' = today =>
        \A u \in DOMAIN users :
            u \in DOMAIN users' /\ users'[u].usage_count >= users[u].usage_count
      ]_vars

\* C10: create_user with a username that is already stored returns False and
\* leaves the stored row (hash, usage_count, last_reset) as it was.
C10_DuplicateSignUpChangesNothing ==
    [][\A u \in Usernames, p \in Passwords, s \in Salts :
          (SignUp(u, p, s) /\ u \in DOMAIN users) =>
              /\ ~create_user(users, u, p, s).ok
              /\ note' = "Username already exists"
              /\ users' = users
      ]_vars

\* C10, witness: a sign-up was refused for a username whose row has been used
C10_RefusedAfterUse ==
    /\ note = "Username already exists"
    /\ \E u \in DOMAIN users : users[u].usage_count > 0

(***************************************************************************)
(* The assembly of report_input, over the many answers of the providers:   *)
(* one registered identity logs in and presses the buttons.                *)
(***************************************************************************)
InitPipeline ==
    /\ SessionStart
    /\ users = ("u1" :> Row(hash_password("p1", "s1"), 0, IsoText(0)))
    /\ provider \in ProvidersMany

NextPipeline ==
    \/ \E p \in Passwords : Login("u1", p)
    \/ \E b \in Buttons \cup {"none"} : Press(b)
    \/ Pipeline

SpecPipeline == InitPipeline /\ [][NextPipeline]_vars

\* the four fetch blocks that write report_input are behind the script
Assembled == pc \in {"history", "generate", "pdf", "done"}
\* the run is past the call of generate_report
Generated == pc \in {"pdf", "done"}

Contains(seq, x) == \E i \in 1..Len(seq) : seq[i] = x
Count(seq, x) == Cardinality({i \in 1..Len(seq) : seq[i] = x})

\* a section is in report_input when its opening piece is
InfoSectionIn == Contains(report_input, CompanyInfoIntro)
NewsSectionIn == Contains(report_input, CompanyNewsIntro)
RecsSectionIn == Contains(report_input, "## Analyst Recommendations\n\n")
UpgradesSectionIn == Contains(report_input, UpgradesHeader)

\* the fetcher returned data with at least one non-empty field
InfoHasField(result) ==
    /\ result.kind = "data"
    /\ \E k \in DOMAIN result.val : Truthy(result.val[k])
NewsHasField(result) ==
    /\ result.kind = "data"
    /\ \E i \in 1..Len(result.val) : \E k \in DOMAIN result.val[i] : result.val[i][k] # ""
TableHasField(result) ==
    /\ result.kind = "data"
    /\ \E i \in 1..Len(result.val.rows) :
          \E c \in ColumnSet(result.val) : result.val.rows[i][c] # ""
\* for upgrades/downgrades the data are the rows whose Action is one of the two
UpgradesHasField(result) ==
    /\ result.kind = "data"
    /\ "Action" \in ColumnSet(result.val)
    /\ \E i \in 1..Len(result.val.rows) : result.val.rows[i]["Action"] \in UpgradeActions

\* C5: each of the four sections is in the assembled report_input if and only
\* if its fetcher returned data with at least one non-empty field.
C5_SectionIffNonEmptyData ==
    Assembled =>
        /\ InfoSectionIn <=> InfoHasField(provider.info)
        /\ NewsSectionIn <=> NewsHasField(provider.news)
        /\ RecsSectionIn <=> TableHasField(provider.recs)
        /\ UpgradesSectionIn <=> UpgradesHasField(provider.upg)

\* a fetcher is unavailable: it raises, or returns None or an empty container
InfoUnavailable(result) == result.kind # "data" \/ DOMAIN result.val = {}
NewsUnavailable(result) == result.kind # "data" \/ Len(result.val) = 0
TableUnavailable(result) == result.kind # "data" \/ IsEmpty(result.val)

AllUnavailable ==
    /\ InfoUnavailable(provider.info)
    /\ NewsUnavailable(provider.news)
    /\ TableUnavailable(provider.recs)
    /\ TableUnavailable(provider.upg)
    /\ TableUnavailable(provider.hist)

\* C6: with every fetcher unavailable, report_input is the empty string when
\* generate_report is called, generate_report is called exactly once, and the
\* run goes on with the completion the endpoint returned.
C6_EmptyInputStillGenerates ==
    AllUnavailable =>
        /\ pc = "generate" => report_input = <<>>
        /\ Generated =>
              /\ report_input = <<>>
              /\ Count(calls, "generate_report") = 1
              /\ provider.llm.kind = "data" =>
                    /\ final_report = Data(provider.llm.val)
                    /\ ~Contains(errors, "report")

\* C6, witness: a run with nothing fetched came back from generate_report
C6_GeneratedFromNothing ==
    /\ AllUnavailable /\ pc = "done"
    /\ final_report.kind = "data"
    /\ provider.info = Data(<<>>) /\ provider.news.kind = "raise"

\* the calls of a run that reached generate_report
CallsOfARun ==
    <<"increment_usage", "get_stock_info", "get_company_news",
      "get_analyst_recommendations", "get_analyst_recommendations",
      "get_stock_history", "generate_report">>

\* the section a fetcher's answer gives when it is the only fetcher
SectionAlone(block) == IF block.raised THEN <<>> ELSE block.pieces

\* C7: whichever fetchers raise, each raise is caught in its own block (one
\* st.error each), every fetcher is still called, the sections of the others
\* are appended as they are without a failing sibling, and generate_report
\* is reached.
C7_FailureIsolation ==
    Generated =>
        /\ Len(calls) >= Len(CallsOfARun)
        /\ SubSeq(calls, 1, Len(CallsOfARun)) = CallsOfARun
        /\ report_input =
              SectionAlone(CompanyInfoBlock(provider.info))
              \o SectionAlone(CompanyNewsBlock(provider.news))
              \o SectionAlone(RecommendationsBlock(provider.recs))
              \o SectionAlone(UpgradesBlock(provider.upg))
        /\ provider.info.kind = "raise" <=> Contains(errors, "company info")
        /\ provider.news.kind = "raise" => Contains(errors, "company news")
        /\ provider.recs.kind = "raise" <=> Contains(errors, "analyst recommendations")
        /\ provider.upg.kind = "raise" => Contains(errors, "upgrades/downgrades")
        /\ provider.hist.kind = "raise" => Contains(errors, "historical data")

\* C7, witness: two fetchers raised and the news section is there all the same
C7_SectionBesideFailures ==
    /\ pc = "done"
    /\ provider.info.kind = "raise" /\ provider.recs.kind = "raise"
    /\ NewsSectionIn
    /\ Contains(calls, "generate_report")

\* the rows the claim selects: the matching rows with fewer than two
\* matching rows before them
MatchingIdx(rows) == {i \in 1..Len(rows) : rows[i]["Action"] \in UpgradeActions}
FirstTwoIdx(rows) ==
    {i \in MatchingIdx(rows) : Cardinality({j \in MatchingIdx(rows) : j < i}) < 2}

RECURSIVE LinesOf(_, _, _)
LinesOf(rows, idx, i) ==
    IF i > Len(rows) THEN ""
    ELSE (IF i \in idx THEN UpgradeLine(rows[i]) ELSE "") \o LinesOf(rows, idx, i + 1)

IsGradeTable(result) ==
    result.kind = "data" /\ ColumnSet(result.val) = {"Firm", "To Grade", "Action"}

\* C8: the upgrades/downgrades lines in report_input are the lines of at most
\* 2 rows, each with Action upgraded or downgraded: the first such rows of
\* the table, in the table's order.
C8_FirstTwoUpgrades ==
    (Assembled /\ IsGradeTable(provider.upg)) =>
        LET rows == provider.upg.val.rows
            idx == FirstTwoIdx(rows)
            n == Len(report_input)
        IN  /\ Cardinality(idx) <= 2
            /\ IF idx = {}
               THEN ~UpgradesSectionIn
               ELSE /\ n >= 4
                    /\ report_input[n - 3] = UpgradesHeader
                    /\ report_input[n - 1] = LinesOf(rows, idx, 1) \o "\n"

\* C8, witness: a table whose first row does not match and that has more
\* matching rows than the section takes, or three matching rows
C8_TableCutToTwo ==
    /\ pc = "done" /\ IsGradeTable(provider.upg) /\ UpgradesSectionIn
    /\ Cardinality(MatchingIdx(provider.upg.val.rows)) >= 3

(***************************************************************************)
(* generate_pdf over every short text: the run stands at line 382 with     *)
(* 'Download PDF' pressed and the endpoint's text in final_report.         *)
(***************************************************************************)
Chars == {"#", " ", "-", "a", NL}
Texts == UNION {[1..n -> Chars] : n \in 0..MaxLen}

InitPdf ==
    /\ today = 0
    /\ users = ("u1" :> Row(hash_password("p1", "s1"), 1, IsoText(0)))
    /\ logged_in = TRUE
    /\ username = "u1"
    /\ screen = "form"
    /\ note = ""
    /\ pc = "pdf"
    /\ btn = "download"
    /\ usage_count = 0
    /\ report_input = <<>>
    /\ final_report \in {Data(t) : t \in Texts}
    /\ flowables = <<>>
    /\ calls = CallsOfARun
    /\ errors = <<"company info", "company news", "analyst recommendations",
                  "upgrades/downgrades", "historical data">>
    /\ provider = [AllFail EXCEPT !.llm = final_report]
    /\ pipeline_starts = [NoStarts EXCEPT !["u1"] = 1]

NextPdf == DownloadPdf \/ MainReturn

SpecPdf == InitPdf /\ [][NextPdf]_vars

\* the Paragraph flowables, in order
TextFlowables == SelectSeq(flowables, LAMBDA f : f.kind = "Paragraph")

\* the line a text flowable stands for: its text behind the marker of its style
LineOf(f) ==
    CASE f.style = "Title" -> TitleMark \o f.text
      [] f.style = "Heading3" -> Heading3Mark \o f.text
      [] f.style = "BodyText" -> BulletMark \o Drop(f.text, 2)
      [] OTHER -> f.text

RECURSIVE JoinLines(_, _)
JoinLines(fs, i) ==
    IF i > Len(fs) THEN <<>>
    ELSE LineOf(fs[i]) \o (IF i < Len(fs) THEN <<NL>> ELSE <<>>) \o JoinLines(fs, i + 1)

\* the style the priority order gives a line
StyleOf(line) ==
    IF StartsWith(line, <<"#", " ">>) THEN "Title"
    ELSE IF StartsWith(line, <<"#", "#", "#", " ">>) THEN "Heading3"
    ELSE IF StartsWith(line, <<"-", " ">>) THEN "BodyText"
    ELSE "Justify"

\* C9: generate_pdf emits one text flowable per line of the input, in line
\* order; its style is title for '# ', else heading3 for '### ', else bullet
\* for '- ', else justified paragraph; its text is the line without the
\* matched prefix, behind the bullet glyph for a bullet.
C9_LinesClassifiedOnce ==
    (pc = "done" /\ final_report.kind = "data") =>
        LET fs == TextFlowables
        IN  /\ Len(fs) >= 1
            /\ JoinLines(fs, 1) = final_report.val
            /\ \A i \in 1..Len(fs) :
                  /\ ~Contains(LineOf(fs[i]), NL)
                  /\ fs[i].style = StyleOf(LineOf(fs[i]))
                  /\ fs[i].style = "BodyText" => StartsWith(fs[i].text, <<Glyph, " ">>)

\* C9, witness: a title line and a bullet line were rendered
C9_TitleAndBullet ==
    /\ pc = "done"
    /\ \E i, j \in 1..Len(flowables) :
          /\ i < j
          /\ flowables[i].style = "Title" /\ Len(flowables[i].text) > 0
          /\ flowables[j].style = "BodyText"

(***************************************************************************)
(* The use a press records.                                                *)
(***************************************************************************)
\* the run is behind increment_usage (line 246)
UseRecorded == pc \in {"info", "news", "recommendations", "upgrades", "history",
                       "generate", "pdf", "done"}

\* C11: every button press past the gate makes exactly one increment_usage
\* call, before any fetcher, generate_report or generate_pdf call, and the
\* increment is never taken back: each run started today has consumed one
\* unit of the stored count, whatever failed in it, so a report and then a
\* download have consumed two.
C11_EachPressConsumesOne ==
    UseRecorded =>
        /\ Len(calls) >= 1
        /\ calls[1] = "increment_usage"
        /\ Count(calls, "increment_usage") = 1
        /\ users[username].usage_count >= pipeline_starts[username]

====
